---- MODULE Spec2Model ----
(***************************************************************************)
(* The notebook 02_Bayesian_belief_nets.ipynb as a state machine.          *)
(*                                                                         *)
(* The notebook is a sequence of code cells run top to bottom in one       *)
(* kernel.  The state is the kernel's namespace (bayesnet, mytrace,        *)
(* data_1, data_2, p_g1_healthy, p_g1_not_healthy, n1, n2 and the value    *)
(* the window cell displays), the Model objects the                        *)
(* with-blocks have constructed, the position in the notebook, and the     *)
(* sampler run in progress.  Cells that only display something (Image,     *)
(* model_to_graphviz, traceplot, md, summary tables, hist, kde) bind no    *)
(* name that another cell reads and are not steps of the model.            *)
(*                                                                         *)
(* pm.sample is a library call.  Its draw counts (10000, 2000, 25000,      *)
(* 5000) are scaled down to 0..MaxDraws, its tuning length to 0..MaxTune,  *)
(* and the number of chains, which the notebook never passes and the       *)
(* library derives from the machine, is any of 1..MaxChains.               *)
(*                                                                         *)
(* Spec is the whole notebook.  No cell's control flow depends on a drawn  *)
(* value, so Spec follows one representative value per draw; what the      *)
(* summary cells compute from the drawn values is checked under            *)
(* SpecSummary and SpecWindow, whose initial states range over every       *)
(* trace of up to MaxLen draws.                                            *)
(***************************************************************************)
EXTENDS Integers, Sequences, FiniteSets, TLC

\* Bounds of the model.
MaxDraws == 2
MaxTune == 1
MaxChains == 2
MaxLen == 5

\* A name no cell has bound yet, and the parent of a root variable.
Unbound == [unbound |-> TRUE]

None == "None"

\* The floating-point value nan.
NaN == [nan |-> TRUE]

\* The six random variables every with-block declares, in declaration order.
RVs == <<"g1", "g2", "g3", "x1", "x2", "x3">>

RVNames == {RVs[i] : i \in 1..Len(RVs)}

Discrete == {"g1", "g2", "g3"}

\* Each variable's parent: g2, g3 hang off g1_L = switch(g1 > 0.5, ...),
\* x_i off rate_i = switch(g_i > .5, ...).
Parent == [v \in RVNames |->
             CASE v = "g1" -> None
               [] v = "g2" -> "g1"
               [] v = "g3" -> "g1"
               [] v = "x1" -> "g1"
               [] v = "x2" -> "g2"
               [] v = "x3" -> "g3"]

\* The literal lists of the data cell.
Data1 == <<38, 58, 62, 55, 80, 40, 51, 52>>

Data2 == <<32, 110, 72, 43, 66, 55, 59, 52>>

\* The value x2 / x3 is observed at in exercises 1 and 2.
ObservedBP == 50

VARIABLES
  pc,               \* the next cell to run, "sampling" inside pm.sample, or a final state
  heap,             \* the Model objects constructed so far, by identity 1..Len(heap)
  bayesnet,         \* the name bayesnet: an identity in heap, or 0 if unbound
  data_1, data_2,   \* the names data_1, data_2: <<>> while unbound
  mytrace,          \* the name mytrace: Unbound or a trace
  run,              \* the pm.sample call in progress: its model, draws, tune, chains, cell
  chainbuf,         \* per chain of the call in progress, the entries it has written
  p_g1_healthy,     \* the names bound by the summary cells
  p_g1_not_healthy,
  n1, n2,           \* the names bound by the window cell: one flag per sample of x2
  window            \* the value the window cell evaluates to and displays

vars == <<pc, heap, bayesnet, data_1, data_2, mytrace, run, chainbuf,
          p_g1_healthy, p_g1_not_healthy, n1, n2, window>>

\* The code cells that bind names, by the line their source starts at, in
\* notebook order.
Cells == <<"c81", "c135", "c172", "c205", "c266", "c276", "c323", "c351",
           "c368", "c518", "c528", "c556", "end">>

RECURSIVE IndexOf(_, _, _)
IndexOf(s, x, i) == IF s[i] = x THEN i ELSE IndexOf(s, x, i + 1)

\* The cell after cell c.
NextCell(c) == Cells[IndexOf(Cells, c, 1) + 1]

\* switch(cond, a, b)
Switch(cond, a, b) == IF cond THEN a ELSE b

\* g > 0.5 for a Bernoulli value g, which is 0 or 1.
AboveHalf(g) == 2 * g > 1

\* A decimal literal with one digit after the point: 0.5 is Tenths(5).
Tenths(n) == [num |-> n, den |-> 10]

\* Bernoulli('g1', 0.5): the root's probability, whatever else holds.
ProbG1 == [g \in {None} |-> Tenths(5)]

\* g1_L = switch(g1_healthy > 0.5, 0.9, 0.1), the probability of g2 and g3.
G1L(g1) == Switch(AboveHalf(g1), Tenths(9), Tenths(1))

\* rate_i = switch(g_i_healthy > .5, 50, 60), the mean of x_i.
Rate(g) == Switch(AboveHalf(g), 50, 60)

\* sd=10**.5
SD == [base |-> 10, exponent |-> Tenths(5)]

\* Mutant of NewModel: observing a variable cuts the edge from its parent.
NewModelCutsObserved(obs) ==
  [rvs |-> RVs,
   parent |-> [v \in RVNames |-> IF v \in DOMAIN obs THEN None ELSE Parent[v]],
   p |-> [v \in Discrete |-> IF v = "g1" THEN ProbG1 ELSE [g \in {0, 1} |-> G1L(g)]],
   mu |-> [v \in RVNames \ Discrete |-> [g \in {0, 1} |-> Rate(g)]],
   sd |-> [v \in RVNames \ Discrete |-> SD],
   observed |-> obs]

\* The Model a with-block leaves: the fixed variables, edges and parameters
\* (each a function of the parent's value), and the observed= values of this
\* block.
NewModel(obs) ==
  [rvs |-> RVs,
   parent |-> Parent,
   p |-> [v \in Discrete |-> IF v = "g1" THEN ProbG1 ELSE [g \in {0, 1} |-> G1L(g)]],
   mu |-> [v \in RVNames \ Discrete |-> [g \in {0, 1} |-> Rate(g)]],
   sd |-> [v \in RVNames \ Discrete |-> SD],
   observed |-> obs]

\* No observed= argument at all.
NoEvidence == [v \in {} |-> 0]

\* Mutant of BuildModel: evidence set by mutating the Model bayesnet names.
BuildInPlace(h, obs) ==
  IF h = <<>> THEN <<NewModel(obs)>> ELSE [h EXCEPT ![Len(h)] = NewModel(obs)]

\* with Model() as bayesnet: a new object, and the name rebound to it.
BuildModel(h, obs) == Append(h, NewModel(obs))

\* One with-block: at cell c, construct a Model with the given observed map.
Build(c, obs) ==
  /\ pc = c
  /\ heap' = BuildModel(heap, obs)
  /\ bayesnet' = Len(heap')
  /\ pc' = NextCell(c)
  /\ UNCHANGED <<data_1, data_2, mytrace, run, chainbuf, p_g1_healthy, p_g1_not_healthy,
                 n1, n2, window>>

Build81 == Build("c81", NoEvidence)

Build135 == Build("c135", [v \in {"x2"} |-> ObservedBP])

Build323 == Build("c323", [v \in {"x3"} |-> ObservedBP])

Build528 == Build("c528", [v \in {"x2", "x3"} |-> IF v = "x2" THEN data_2 ELSE data_1])

\* data_1 = [...]; data_2 = [...]
DataCell ==
  /\ pc = "c518"
  /\ data_1' = Data1
  /\ data_2' = Data2
  /\ pc' = NextCell("c518")
  /\ UNCHANGED <<heap, bayesnet, mytrace, run, chainbuf, p_g1_healthy, p_g1_not_healthy,
                 n1, n2, window>>

\* Mutant of FreeVars: observed variables are sampled too.
AllVars(m) == RVNames

\* The variables pm.sample draws: those declared without observed=.
FreeVars(m) == {v \in RVNames : v \notin DOMAIN m.observed}

\* The values variable v can take in a draw: 0 / 1 for a Bernoulli, and for
\* a Normal the blood pressure, followed at one representative value.
DrawVals(v) == IF v \in Discrete THEN {0, 1} ELSE {ObservedBP}

\* The value Spec follows for variable v.
Representative(v) == IF v \in Discrete THEN 1 ELSE ObservedBP

\* The joint assignments one sampler step of Spec may produce for model m.
DrawSpace(m) == {[v \in FreeVars(m) |-> Representative(v)]}

\* Every joint assignment a draw can be, as far as a cell reads it back:
\* g1 (read by sum(mytrace['g1'])) is open, the rest representative.
PointSpace(m) == {pt \in [FreeVars(m) -> {0, 1, ObservedBP}] :
                    \A v \in FreeVars(m) :
                      /\ pt[v] \in DrawVals(v)
                      /\ v # "g1" => pt[v] = Representative(v)}

\* Mutant of DiscardTuned: the tuning draws are kept.
KeepTuned(buf, t) == buf

\* sample() ends with trace[discard:], discard = tune: the first t entries
\* of a chain, the tuning draws, are dropped.
DiscardTuned(buf, t) == SubSeq(buf, t + 1, Len(buf))

\* mytrace[var] reads all chains, concatenated in chain order.
RECURSIVE Merge(_, _, _)
Merge(bufs, t, k) ==
  IF k = 0 THEN <<>> ELSE Merge(bufs, t, k - 1) \o DiscardTuned(bufs[k], t)

\* A chain has run to completion.
ChainDone(i) == Len(chainbuf[i]) = run.tune + run.draws

\* Mutant of AllChainsDone: the call returns as soon as one chain is done.
SomeChainDone(k) == \E i \in 1..k : ChainDone(i)

\* pm.sample returns once every chain has completed.
AllChainsDone(k) == \A i \in 1..k : ChainDone(i)

\* with bayesnet: mytrace = pm.sample(n, tune=t) with k chains: the call
\* starts, every chain with an empty buffer and n + t iterations to run.
SampleBegin(c, n, t, k) ==
  /\ n + t > 0
  /\ run' = [cell |-> c, model |-> bayesnet, draws |-> n, tune |-> t, chains |-> k]
  /\ chainbuf' = [i \in 1..k |-> <<>>]
  /\ pc' = "sampling"
  /\ UNCHANGED <<heap, bayesnet, data_1, data_2, mytrace, p_g1_healthy, p_g1_not_healthy,
                 n1, n2, window>>

\* pm.sample(0, tune=0): the library rejects a call that leaves it no
\* iteration at all ("Argument `draws` must be greater than 0"); no cell
\* catches the exception, so the cell aborts, mytrace keeps its old binding
\* and the run of the notebook stops.
SampleRaise(c, n, t) ==
  /\ n + t = 0
  /\ pc' = "raised"
  /\ UNCHANGED <<heap, bayesnet, data_1, data_2, mytrace, run, chainbuf,
                 p_g1_healthy, p_g1_not_healthy,
                 n1, n2, window>>

\* One pm.sample cell: the call either starts or, with nothing to iterate,
\* raises.
Sample(c) ==
  /\ pc = c
  /\ bayesnet # 0
  /\ \E n \in 0..MaxDraws, t \in 0..MaxTune, k \in 1..MaxChains :
       SampleBegin(c, n, t, k) \/ SampleRaise(c, n, t)

Sample172 == Sample("c172")

Sample266 == Sample("c266")

Sample351 == Sample("c351")

Sample556 == Sample("c556")

\* One sampler iteration of chain i: the chain appends one joint draw to
\* its own buffer, stamped with the chain and the iteration it comes from;
\* the first run.tune iterations are tuning draws.
ChainStep(i) ==
  /\ pc = "sampling"
  /\ i \in 1..run.chains
  /\ ~ChainDone(i)
  /\ \E pt \in DrawSpace(heap[run.model]) :
       chainbuf' = [chainbuf EXCEPT ![i] =
                      Append(@, [tuning |-> Len(@) < run.tune, chain |-> i,
                                 iter |-> Len(@) + 1, point |-> pt])]
  /\ UNCHANGED <<pc, heap, bayesnet, data_1, data_2, mytrace, run,
                 p_g1_healthy, p_g1_not_healthy,
                 n1, n2, window>>

\* pm.sample returns and the assignment binds mytrace.
SampleReturn ==
  /\ pc = "sampling"
  /\ AllChainsDone(run.chains)
  /\ mytrace' = [model |-> run.model,
                 varnames |-> FreeVars(heap[run.model]),
                 nchains |-> run.chains,
                 draws |-> run.draws,
                 tune |-> run.tune,
                 points |-> Merge(chainbuf, run.tune, run.chains)]
  /\ pc' = NextCell(run.cell)
  /\ run' = Unbound
  /\ chainbuf' = <<>>
  /\ UNCHANGED <<heap, bayesnet, data_1, data_2, p_g1_healthy, p_g1_not_healthy,
                 n1, n2, window>>

\* mytrace[v]: the values of variable v, one per kept draw.
TraceGet(tr, v) == [i \in 1..Len(tr.points) |-> tr.points[i].point[v]]

RECURSIVE Sum(_)
Sum(s) == IF s = <<>> THEN 0 ELSE Head(s) + Sum(Tail(s))

\* a / b in floating point: a ratio, or nan for 0 / 0 (numpy warns, does
\* not raise).
Div(a, b) == IF b = 0 THEN NaN ELSE [num |-> a, den |-> b]

\* Mutant of OneMinus: the operands swapped, q - 1.
MinusOne(q) == IF q = NaN THEN NaN ELSE [num |-> q.num - q.den, den |-> q.den]

\* 1 - q
OneMinus(q) == IF q = NaN THEN NaN ELSE [num |-> q.den - q.num, den |-> q.den]

\* p_g1_healthy = sum(mytrace['g1'])/len(mytrace['g1'])
\* p_g1_not_healthy = 1 - p_g1_healthy
Summary(c) ==
  /\ pc = c
  /\ mytrace # Unbound
  /\ "g1" \in mytrace.varnames
  /\ p_g1_healthy' = Div(Sum(TraceGet(mytrace, "g1")), Len(TraceGet(mytrace, "g1")))
  /\ p_g1_not_healthy' = OneMinus(p_g1_healthy')
  /\ pc' = NextCell(c)
  /\ UNCHANGED <<heap, bayesnet, data_1, data_2, mytrace, run, chainbuf, n1, n2, window>>

Summary205 == Summary("c205")

Summary276 == Summary("c276")

\* The bounds of the window the cell at line 368 casts x2 into.
WindowHigh == 51

WindowLow == 50

\* mytrace['x2'] > 51, for one sample
Above(x) == x > WindowHigh

\* Mutant of Below: the lower endpoint is excluded too.
BelowOrEqual(x) == x <= WindowLow

\* mytrace['x2'] < 50, for one sample
Below(x) == x < WindowLow

\* sum() of an array of flags: the number of them that are True.
RECURSIVE SumFlags(_)
SumFlags(s) == IF s = <<>> THEN 0 ELSE (IF Head(s) THEN 1 ELSE 0) + SumFlags(Tail(s))

\* n1 = mytrace['x2']>51
\* n2 = mytrace['x2']<50
\* (len(mytrace['x2']) - sum(n1) - sum(n2))/len(mytrace['x2'])
Window368 ==
  /\ pc = "c368"
  /\ mytrace # Unbound
  /\ "x2" \in mytrace.varnames
  /\ n1' = [i \in 1..Len(mytrace.points) |-> Above(TraceGet(mytrace, "x2")[i])]
  /\ n2' = [i \in 1..Len(mytrace.points) |-> Below(TraceGet(mytrace, "x2")[i])]
  /\ window' = Div(Len(TraceGet(mytrace, "x2")) - SumFlags(n1') - SumFlags(n2'),
                   Len(TraceGet(mytrace, "x2")))
  /\ pc' = NextCell("c368")
  /\ UNCHANGED <<heap, bayesnet, data_1, data_2, mytrace, run, chainbuf,
                 p_g1_healthy, p_g1_not_healthy>>

Init ==
  /\ pc = "c81"
  /\ heap = <<>>
  /\ bayesnet = 0
  /\ data_1 = <<>>
  /\ data_2 = <<>>
  /\ mytrace = Unbound
  /\ run = Unbound
  /\ chainbuf = <<>>
  /\ p_g1_healthy = Unbound
  /\ p_g1_not_healthy = Unbound
  /\ n1 = Unbound
  /\ n2 = Unbound
  /\ window = Unbound

Next ==
  \/ Build81
  \/ Build135
  \/ Build323
  \/ Build528
  \/ DataCell
  \/ Sample172
  \/ Sample266
  \/ Sample351
  \/ Sample556
  \/ \E i \in 1..MaxChains : ChainStep(i)
  \/ SampleReturn
  \/ Summary205
  \/ Summary276
  \/ Window368

Spec == Init /\ [][Next]_vars

\* The traces a pm.sample call of k chains and n draws per chain can return
\* for model m.
Traces(id, m, n, t, k) ==
  {[model |-> id, varnames |-> FreeVars(m), nchains |-> k, draws |-> n, tune |-> t,
    points |-> [i \in 1..(n * k) |->
                  [tuning |-> FALSE, chain |-> ((i - 1) \div n) + 1,
                   iter |-> t + ((i - 1) % n) + 1, point |-> f[i]]]] :
     f \in [1..(n * k) -> PointSpace(m)]}

\* The notebook just after the cell at line 172 has returned, with any
\* trace of at most MaxLen draws.
InitSummary ==
  /\ pc = "c205"
  /\ heap = BuildModel(BuildModel(<<>>, NoEvidence), [v \in {"x2"} |-> ObservedBP])
  /\ bayesnet = 2
  /\ data_1 = <<>>
  /\ data_2 = <<>>
  /\ \E k \in 1..MaxChains, n \in 0..MaxLen, t \in 0..MaxTune :
       /\ n * k <= MaxLen
       /\ mytrace \in Traces(2, heap[2], n, t, k)
  /\ run = Unbound
  /\ chainbuf = <<>>
  /\ p_g1_healthy = Unbound
  /\ p_g1_not_healthy = Unbound
  /\ n1 = Unbound
  /\ n2 = Unbound
  /\ window = Unbound

NextSummary == Summary205

SpecSummary == InitSummary /\ [][NextSummary]_vars

\* The blood pressures a draw of x2 is followed at: below the window, its
\* two endpoints, and above it.
XVals == (WindowLow - 1)..(WindowHigh + 1)

\* Every joint assignment a draw can be, as far as the window cell reads it
\* back: x2 is open, the rest representative.
WindowPointSpace(m) ==
  {[v \in FreeVars(m) |-> IF v = "x2" THEN x ELSE Representative(v)] : x \in XVals}

\* The traces a pm.sample call of k chains and n draws per chain can return
\* for model m, as far as the window cell reads them.
WindowTraces(id, m, n, t, k) ==
  {[model |-> id, varnames |-> FreeVars(m), nchains |-> k, draws |-> n, tune |-> t,
    points |-> [i \in 1..(n * k) |->
                  [tuning |-> FALSE, chain |-> ((i - 1) \div n) + 1,
                   iter |-> t + ((i - 1) % n) + 1, point |-> f[i]]]] :
     f \in [1..(n * k) -> WindowPointSpace(m)]}

\* The notebook just after the cell at line 351 has returned, with any
\* trace of at most MaxLen draws.
InitWindow ==
  /\ pc = "c368"
  /\ heap = BuildModel(BuildModel(BuildModel(<<>>, NoEvidence),
                                   [v \in {"x2"} |-> ObservedBP]),
                        [v \in {"x3"} |-> ObservedBP])
  /\ bayesnet = 3
  /\ data_1 = <<>>
  /\ data_2 = <<>>
  /\ \E k \in 1..MaxChains, n \in 0..MaxLen, t \in 0..MaxTune :
       /\ n * k <= MaxLen
       /\ mytrace \in WindowTraces(3, heap[3], n, t, k)
  /\ run = Unbound
  /\ chainbuf = <<>>
  /\ p_g1_healthy = Div(1, 1)
  /\ p_g1_not_healthy = OneMinus(p_g1_healthy)
  /\ n1 = Unbound
  /\ n2 = Unbound
  /\ window = Unbound

NextWindow == Window368

SpecWindow == InitWindow /\ [][NextWindow]_vars

----
\* Properties.

\* The variables the Model a trace was sampled from declares observed.
ObservedOf(tr) == DOMAIN heap[tr.model].observed

CountTrue(s) == Cardinality({i \in 1..Len(s) : s[i] = 1})

\* C3: on a non-empty trace the summary cell's mean is the number of g1
\* samples equal to 1 over the number of g1 samples, it lies in [0, 1], and
\* so does the complement 1 - mean, and the two sum to 1.
C3_MeanIsFractionTrue ==
  (pc = "c266" /\ Len(mytrace.points) > 0) =>
    /\ p_g1_healthy.num = CountTrue(TraceGet(mytrace, "g1"))
    /\ p_g1_healthy.den = Len(TraceGet(mytrace, "g1"))
    /\ 0 <= p_g1_healthy.num /\ p_g1_healthy.num <= p_g1_healthy.den
    /\ p_g1_not_healthy.den = p_g1_healthy.den
    /\ 0 <= p_g1_not_healthy.num /\ p_g1_not_healthy.num <= p_g1_not_healthy.den
    /\ p_g1_healthy.num + p_g1_not_healthy.num = p_g1_healthy.den

C3_Witness ==
  /\ pc = "c266"
  /\ Len(mytrace.points) = 3
  /\ p_g1_healthy = [num |-> 2, den |-> 3]
  /\ p_g1_not_healthy = [num |-> 1, den |-> 3]

C7_BuildLeavesGraphsUnchanged ==
  [][/\ Len(heap') >= Len(heap)
     /\ \A i \in 1..Len(heap) : heap'[i] = heap[i]
     /\ heap' # heap => (Len(heap') = Len(heap) + 1 /\ bayesnet' = Len(heap'))
     /\ data_1 # <<>> => data_1' = data_1
     /\ data_2 # <<>> => data_2' = data_2]_vars

C7_Witness ==
  /\ Len(heap) = 4
  /\ bayesnet = 4
  /\ DOMAIN heap[1].observed = {}
  /\ heap[2].observed = [v \in {"x2"} |-> ObservedBP]
  /\ heap[3].observed = [v \in {"x3"} |-> ObservedBP]
  /\ heap[4].observed["x2"] = Data2
  /\ data_2 = Data2

\* The variables on the path from v up to its root, v excluded, following at
\* most n edges.
RECURSIVE Ancestors(_, _, _)
Ancestors(m, v, n) ==
  IF n = 0 \/ m.parent[v] = None THEN {}
  ELSE {m.parent[v]} \cup Ancestors(m, m.parent[v], n - 1)

\* The ratio r is the decimal a / b.
IsRatio(r, a, b) == r.num * b = a * r.den

\* C11: every Model a with-block has constructed, with or without observed=
\* values, has the same acyclic structure and parameters: g1 has probability
\* 0.5 and no parent; g2 and g3 have probability 0.9 when g1 is 1 and 0.1
\* when it is 0, and g1 as their only parent; x1, x2, x3 have mean 50 when
\* g1, g2, g3 respectively is 1 and 60 when it is 0, standard deviation
\* 10 ** 0.5, and that g as their only parent; Models differ in their
\* observed values only.
C11_StructureAndParametersFixed ==
  \A i \in 1..Len(heap) :
    LET m == heap[i] IN
      /\ m.parent["g1"] = None
      /\ DOMAIN m.p["g1"] = {None}
      /\ IsRatio(m.p["g1"][None], 1, 2)
      /\ \A v \in {"g2", "g3"} :
           /\ m.parent[v] = "g1"
           /\ IsRatio(m.p[v][1], 9, 10)
           /\ IsRatio(m.p[v][0], 1, 10)
      /\ m.parent["x1"] = "g1" /\ m.parent["x2"] = "g2" /\ m.parent["x3"] = "g3"
      /\ \A v \in {"x1", "x2", "x3"} :
           /\ m.mu[v][1] = 50
           /\ m.mu[v][0] = 60
           /\ m.sd[v].base = 10
           /\ IsRatio(m.sd[v].exponent, 1, 2)
      /\ \A v \in RVNames : v \notin Ancestors(m, v, Len(m.rvs))
      /\ [m EXCEPT !.observed = NoEvidence] = [heap[1] EXCEPT !.observed = NoEvidence]

C11_Witness ==
  /\ Len(heap) = 4
  /\ DOMAIN heap[1].observed = {}
  /\ DOMAIN heap[2].observed = {"x2"}
  /\ DOMAIN heap[3].observed = {"x3"}
  /\ DOMAIN heap[4].observed = {"x2", "x3"}
  /\ heap[4].observed["x3"] = Data1
  /\ pc = "end"

CountInWindow(s) == Cardinality({i \in 1..Len(s) : 50 <= s[i] /\ s[i] <= 51})

\* C12: on a non-empty trace of x2 the window cell's value is the number of
\* samples with 50 <= x2 <= 51 over the number of samples; no sample is
\* flagged both above and below, and the value lies in [0, 1].
C12_WindowIsFractionInside ==
  (pc = "c518" /\ Len(mytrace.points) > 0) =>
    /\ window.num = CountInWindow(TraceGet(mytrace, "x2"))
    /\ window.den = Len(TraceGet(mytrace, "x2"))
    /\ \A i \in 1..Len(n1) : ~(n1[i] /\ n2[i])
    /\ 0 <= window.num /\ window.num <= window.den

C12_Witness ==
  /\ pc = "c518"
  /\ TraceGet(mytrace, "x2") = <<49, 50, 51, 52>>
  /\ window = [num |-> 2, den |-> 4]
====
